---- MODULE Spec2Model ----
(***************************************************************************)
(* One call of collate_fn (helpers/training/collate.py): caption dropout,  *)
(* luminance averaging, the concurrent latent fetch of compute_latents,    *)
(* shape validation, the embedding dispatch and the SDXL time ids.         *)
(*                                                                         *)
(* Python values that may be None are sequences of length 0 (None) or 1    *)
(* (Some(x)); tuples that may be None are the empty tuple when None.       *)
(***************************************************************************)
EXTENDS Integers, Sequences, FiniteSets, TLC

VARIABLES batch, caption_dropout_probability, pc, dropout_probability, idx,
          data_backend_id, batch_luminance, filepaths, task, fut, latents,
          latent_batch, captions, model_type, prompt_embeds_all,
          add_text_embeds_all, batch_time_ids, result, err

vars == <<batch, caption_dropout_probability, pc, dropout_probability, idx,
          data_backend_id, batch_luminance, filepaths, task, fut, latents,
          latent_batch, captions, model_type, prompt_embeds_all,
          add_text_embeds_all, batch_time_ids, result, err>>

\* ------------------------------------------------------------------ bounds
MaxExamples == 3

\* ------------------------------------------------------------ value helpers
None == <<>>
Some(x) == <<x>>
Get(o) == o[1]

Unbound == "<unbound>"
Unread == "<unread>"

NoError == [kind |-> "none", at |-> "none", key |-> None]
Error(kind, at, key) == [kind |-> kind, at |-> at, key |-> key]

\* ------------------------------------------------------------------ inputs
Backends == {"b1", "b2"}
CropCoordinates == {None, <<1, 2>>}
ModelTypes == {"sdxl", "legacy"}
\* latent shapes (channels, height, width)
Shapes == {<<4, 2, 3>>, <<4, 3, 2>>}
\* caption_dropout_probability in tenths: None, 0, 0.5, 1
Probabilities == {None, Some(0), Some(5), Some(10)}
\* np.random.rand() returns a value of [0, 1); in tenths
Draws == 0 .. 9

ImagePath(i) == <<"img", i>>
InitialCaption(fp) == <<"caption of", fp>>
EmptyCaption == <<>>

Example(i, b, c) ==
    [image_path |-> ImagePath(i),
     data_backend_id |-> b,
     instance_prompt_text |-> InitialCaption(ImagePath(i)),
     original_size |-> <<5 + i, 7 + i>>,
     crop_coordinates |-> c,
     luminance |-> i,
     drop_conditioning |-> None]

ExampleLists ==
    UNION {{[i \in 1 .. n |-> Example(i, bs[i], cs[i])] :
              bs \in [1 .. n -> Backends], cs \in [1 .. n -> CropCoordinates]} :
           n \in 0 .. MaxExamples}

Batches == {<<>>, <<<<>>, <<>>>>} \cup {<<g>> : g \in ExampleLists}

\* examples = batch[0]: an alias of the caller's list, mutated in place
examples == batch[1]

vae_downscale_factor == 8

RECURSIVE SumSeq(_)
SumSeq(s) == IF s = <<>> THEN 0 ELSE Head(s) + SumSeq(Tail(s))

\* collate_fn lines 180-184: the dropout condition for a non-None probability
\* p and a draw r of np.random.rand(), both in tenths
ShouldDropInclusive(p, r) == r <= p

ShouldDrop(p, r) == p > 0 /\ r < p

\* collate_fn line 179: the loop rebinds data_backend_id at every iteration
LoopBackendIdFirstSeen(exs, i, current) ==
    IF current = Unbound THEN exs[i].data_backend_id ELSE current

LoopBackendId(exs, i, current) == exs[i].data_backend_id

\* collate_fn line 178: the loop body runs once per example before line 190
AfterDropoutLeavesEarly(i, n) == "luminance"

AfterDropout(i, n) == IF i = n THEN "luminance" ELSE "dropout"

\* collate_fn lines 185-188
ApplyDropout(example, drop) ==
    IF drop
    THEN [example EXCEPT !.instance_prompt_text = EmptyCaption,
                         !.drop_conditioning = Some(TRUE)]
    ELSE [example EXCEPT !.drop_conditioning = Some(FALSE)]

\* collate_fn lines 191-193: the mean as the fraction <<sum, count>>
AverageLuminance(exs) ==
    <<SumSeq([i \in 1 .. Len(exs) |-> exs[i].luminance]), Len(exs)>>

extract_filepaths(exs) == [i \in 1 .. Len(exs) |-> exs[i].image_path]

\* what retrieve_from_cache(fp) of the vae cache of one backend returns
Latent(fp, backend, shape) ==
    [image_path |-> fp, backend |-> backend, shape |-> shape]

\* the arguments executor.map hands to task t: fetch_latent(fp, data_backend_id)
FetchArgs(fps, backend, t) == <<fps[t], ([i \in 1 .. Len(fps) |-> backend])[t]>>

\* list(executor.map(...)): the results in the order of the submitted calls
MapResultsReversed(futures) ==
    [i \in 1 .. Len(futures) |-> Get(futures[Len(futures) + 1 - i])]

MapResults(futures) == [i \in 1 .. Len(futures) |-> Get(futures[i])]

\* the first future, in submission order, whose result is not available
FirstNotDone(tasks) ==
    IF \E k \in 1 .. Len(tasks) : tasks[k] # "done"
    THEN CHOOSE k \in 1 .. Len(tasks) :
             /\ tasks[k] # "done"
             /\ \A j \in 1 .. k - 1 : tasks[j] = "done"
    ELSE 0

\* compute_latents lines 105-110: index of the latent the ValueError is
\* raised for, 0 when the loop completes
ShapeMismatchIndex(lats) ==
    LET test_shape == lats[1].shape
    IN  IF \E i \in 1 .. Len(lats) : lats[i].shape # test_shape
        THEN CHOOSE i \in 1 .. Len(lats) :
                 /\ lats[i].shape # test_shape
                 /\ \A j \in 1 .. i - 1 : lats[j].shape = test_shape
        ELSE 0

Embeds(kind, caps) == [kind |-> kind, captions |-> caps]

\* compute_prompt_embeddings: the pair (prompt_embeds_all, add_text_embeds_all)
compute_prompt_embeddings_always_pooled(mt, caps) ==
    <<Some(Embeds("prompt_embeds", caps)), Some(Embeds("add_text_embeds", caps))>>

compute_prompt_embeddings(mt, caps) ==
    IF mt = "sdxl"
    THEN <<Some(Embeds("prompt_embeds", caps)), Some(Embeds("add_text_embeds", caps))>>
    ELSE <<Some(Embeds("prompt_embeds", caps)), None>>

\* compute_time_ids lines 28-53 and the tuple() of line 144: the exception
\* raised for these arguments, "none" when there is none
TimeIdsError(original_size, target_size, crop_coordinates) ==
    IF original_size = None THEN "TypeError"
    ELSE IF target_size = None THEN "Exception"
    ELSE IF crop_coordinates = None THEN "ValueError"
    ELSE "none"

\* compute_time_ids lines 43-57
compute_time_ids_width_first(original_size, target_size, crop_coordinates) ==
    LET original_width == original_size[1]
        original_height == original_size[2]
        target_width == target_size[3] * vae_downscale_factor
        target_height == target_size[2] * vae_downscale_factor
        final_target_size == <<target_width, target_height>>
    IN  <<original_width, original_height>> \o crop_coordinates \o final_target_size

compute_time_ids(original_size, target_size, crop_coordinates) ==
    LET original_width == original_size[1]
        original_height == original_size[2]
        target_width == target_size[3] * vae_downscale_factor
        target_height == target_size[2] * vae_downscale_factor
        final_target_size == <<target_height, target_width>>
    IN  <<original_height, original_width>> \o crop_coordinates \o final_target_size

ZerosLike(v) == [i \in 1 .. Len(v) |-> 0]

\* gather_conditional_size_features lines 141-154, one iteration
TimeIdsOf(example, latent) ==
    LET time_ids == compute_time_ids(example.original_size, latent.shape,
                                     example.crop_coordinates)
    IN  IF Get(example.drop_conditioning) THEN ZerosLike(time_ids) ELSE time_ids

\* index of the first example whose compute_time_ids call raises, 0 if none
TimeIdsErrorIndex(exs, lats) ==
    LET Bad(i) == TimeIdsError(exs[i].original_size, lats[i].shape,
                               exs[i].crop_coordinates) # "none"
    IN  IF \E i \in 1 .. Len(exs) : Bad(i)
        THEN CHOOSE i \in 1 .. Len(exs) : Bad(i) /\ \A j \in 1 .. i - 1 : ~Bad(j)
        ELSE 0

gather_conditional_size_features(exs, lats) ==
    [i \in 1 .. Len(exs) |-> TimeIdsOf(exs[i], lats[i])]

Init ==
    /\ batch \in Batches
    /\ caption_dropout_probability \in Probabilities
    /\ pc = "start"
    /\ dropout_probability = Some(Unread)
    /\ idx = 0
    /\ data_backend_id = Unbound
    /\ batch_luminance = None
    /\ filepaths = <<>>
    /\ task = <<>>
    /\ fut = <<>>
    /\ latents = <<>>
    /\ latent_batch = None
    /\ captions = None
    /\ model_type = Unread
    /\ prompt_embeds_all = None
    /\ add_text_embeds_all = None
    /\ batch_time_ids = None
    /\ result = None
    /\ err = NoError

\* an exception raised inside collate_fn is not caught there: the call ends
RaiseAndReturnPartial(kind, at, key) ==
    /\ pc' = "return"
    /\ err' = Error(kind, at, key)

Raise(kind, at, key) ==
    /\ pc' = "error"
    /\ err' = Error(kind, at, key)

\* collate_fn lines 167-175
Begin ==
    /\ pc = "start"
    /\ IF Len(batch) # 1
       THEN /\ Raise("ValueError", "multi_batch", None)
            /\ UNCHANGED <<dropout_probability, idx>>
       ELSE /\ dropout_probability' = caption_dropout_probability
            /\ idx' = 1
            /\ pc' = IF Len(examples) = 0 THEN "luminance" ELSE "dropout"
            /\ err' = err
    /\ UNCHANGED <<batch, caption_dropout_probability, data_backend_id,
                   batch_luminance, filepaths, task, fut, latents,
                   latent_batch, captions, model_type, prompt_embeds_all,
                   add_text_embeds_all, batch_time_ids, result>>

\* collate_fn lines 178-188, one iteration of the loop
DropoutStep ==
    /\ pc = "dropout"
    /\ idx \in 1 .. Len(examples)
    /\ data_backend_id' = LoopBackendId(examples, idx, data_backend_id)
    /\ IF dropout_probability = None
       THEN \* None > 0 raises before "is not None" is evaluated
            /\ Raise("TypeError", "dropout", Some(examples[idx].image_path))
            /\ UNCHANGED <<batch, idx>>
       ELSE /\ \E r \in Draws :
                  batch' = [batch EXCEPT ![1][idx] =
                               ApplyDropout(@, ShouldDrop(Get(dropout_probability), r))]
            /\ idx' = idx + 1
            /\ pc' = AfterDropout(idx, Len(examples))
            /\ err' = err
    /\ UNCHANGED <<caption_dropout_probability, dropout_probability,
                   batch_luminance, filepaths, task, fut, latents,
                   latent_batch, captions, model_type, prompt_embeds_all,
                   add_text_embeds_all, batch_time_ids, result>>

\* collate_fn lines 190-195
LuminanceGuardedMean ==
    /\ pc = "luminance"
    /\ batch_luminance' = Some(<<AverageLuminance(examples)[1],
                                  IF Len(examples) = 0 THEN 1 ELSE Len(examples)>>)
    /\ filepaths' = extract_filepaths(examples)
    /\ pc' = "compute_latents"
    /\ UNCHANGED <<batch, caption_dropout_probability, dropout_probability,
                   idx, data_backend_id, task, fut, latents, latent_batch,
                   captions, model_type, prompt_embeds_all,
                   add_text_embeds_all, batch_time_ids, result, err>>

Luminance ==
    /\ pc = "luminance"
    /\ IF Len(examples) = 0
       THEN /\ Raise("ZeroDivisionError", "luminance", None)
            /\ UNCHANGED <<batch_luminance, filepaths>>
       ELSE /\ batch_luminance' = Some(AverageLuminance(examples))
            /\ filepaths' = extract_filepaths(examples)
            /\ pc' = "compute_latents"
            /\ err' = err
    /\ UNCHANGED <<batch, caption_dropout_probability, dropout_probability,
                   idx, data_backend_id, task, fut, latents, latent_batch,
                   captions, model_type, prompt_embeds_all,
                   add_text_embeds_all, batch_time_ids, result>>

\* compute_latents lines 99-102: executor.map submits one task per filepath
Submit ==
    /\ pc = "compute_latents"
    /\ task' = [i \in 1 .. Len(filepaths) |-> "pending"]
    /\ fut' = [i \in 1 .. Len(filepaths) |-> None]
    /\ pc' = "fetch"
    /\ UNCHANGED <<batch, caption_dropout_probability, dropout_probability,
                   idx, data_backend_id, batch_luminance, filepaths, latents,
                   latent_batch, captions, model_type, prompt_embeds_all,
                   add_text_embeds_all, batch_time_ids, result, err>>

\* a worker thread of the pool picks up task t
FetchStart(t) ==
    /\ pc = "fetch"
    /\ task[t] = "pending"
    /\ task' = [task EXCEPT ![t] = "running"]
    /\ UNCHANGED <<batch, caption_dropout_probability, dropout_probability,
                   idx, data_backend_id, batch_luminance, filepaths, fut,
                   latents, latent_batch, captions, model_type,
                   prompt_embeds_all, add_text_embeds_all, batch_time_ids,
                   result, pc, err>>

\* fetch_latent lines 84-94: the cache returns a latent of some shape, or raises
FetchFinish(t) ==
    /\ pc = "fetch"
    /\ task[t] = "running"
    /\ LET args == FetchArgs(filepaths, data_backend_id, t)
       IN  \/ \E s \in Shapes :
                 /\ fut' = [fut EXCEPT ![t] = Some(Latent(args[1], args[2], s))]
                 /\ task' = [task EXCEPT ![t] = "done"]
           \/ /\ task' = [task EXCEPT ![t] = "failed"]
              /\ fut' = fut
    /\ UNCHANGED <<batch, caption_dropout_probability, dropout_probability,
                   idx, data_backend_id, batch_luminance, filepaths,
                   latents, latent_batch, captions, model_type,
                   prompt_embeds_all, add_text_embeds_all, batch_time_ids,
                   result, pc, err>>

\* compute_latents lines 99-102: list() over the map results and the exit of
\* the with block, which cancels the tasks not started and waits for the
\* running ones
Join ==
    /\ pc = "fetch"
    /\ LET k == FirstNotDone(task)
       IN  IF k = 0
           THEN /\ latents' = MapResults(fut)
                /\ pc' = "validate"
                /\ UNCHANGED <<task, err>>
           ELSE /\ task[k] = "failed"
                /\ \A j \in 1 .. Len(task) : task[j] # "running"
                /\ task' = [j \in 1 .. Len(task) |->
                              IF task[j] = "pending" THEN "cancelled" ELSE task[j]]
                /\ Raise("CacheError", "fetch", Some(filepaths[k]))
                /\ UNCHANGED latents
    /\ UNCHANGED <<batch, caption_dropout_probability, dropout_probability,
                   idx, data_backend_id, batch_luminance, filepaths, fut,
                   latent_batch, captions, model_type, prompt_embeds_all,
                   add_text_embeds_all, batch_time_ids, result>>

\* compute_latents lines 104-113, then check_latent_shapes (lines 159-163, 199)
\* which only prints
Validate ==
    /\ pc = "validate"
    /\ LET i == ShapeMismatchIndex(latents)
       IN  IF i # 0
           THEN /\ Raise("ValueError", "shape_mismatch", Some(filepaths[i]))
                /\ UNCHANGED latent_batch
           ELSE /\ latent_batch' = Some(latents)
                /\ pc' = "embed"
                /\ err' = err
    /\ UNCHANGED <<batch, caption_dropout_probability, dropout_probability,
                   idx, data_backend_id, batch_luminance, filepaths, task, fut,
                   latents, captions, model_type, prompt_embeds_all,
                   add_text_embeds_all, batch_time_ids, result>>

\* collate_fn lines 203-207 and compute_prompt_embeddings: one batched call
\* to the embed cache, which may raise
Embed ==
    /\ pc = "embed"
    /\ captions' = Some([i \in 1 .. Len(examples) |-> examples[i].instance_prompt_text])
    /\ \E mt \in ModelTypes, ok \in BOOLEAN :
          /\ model_type' = mt
          /\ IF ~ok
             THEN /\ Raise("EmbeddingCacheError", "embed", None)
                  /\ UNCHANGED <<prompt_embeds_all, add_text_embeds_all>>
             ELSE LET pair == compute_prompt_embeddings(mt, Get(captions'))
                  IN  /\ prompt_embeds_all' = pair[1]
                      /\ add_text_embeds_all' = pair[2]
                      /\ pc' = IF pair[2] # None THEN "time_ids" ELSE "return"
                      /\ err' = err
    /\ UNCHANGED <<batch, caption_dropout_probability, dropout_probability,
                   idx, data_backend_id, batch_luminance, filepaths, task, fut,
                   latents, latent_batch, batch_time_ids, result>>

\* collate_fn lines 207-212 and gather_conditional_size_features
TimeIds ==
    /\ pc = "time_ids"
    /\ LET i == TimeIdsErrorIndex(examples, Get(latent_batch))
       IN  IF i # 0
           THEN /\ Raise(TimeIdsError(examples[i].original_size,
                                      Get(latent_batch)[i].shape,
                                      examples[i].crop_coordinates),
                         "time_ids", Some(examples[i].image_path))
                /\ UNCHANGED batch_time_ids
           ELSE /\ batch_time_ids' =
                       Some(gather_conditional_size_features(examples, Get(latent_batch)))
                /\ pc' = "return"
                /\ err' = err
    /\ UNCHANGED <<batch, caption_dropout_probability, dropout_probability,
                   idx, data_backend_id, batch_luminance, filepaths, task, fut,
                   latents, latent_batch, captions, model_type,
                   prompt_embeds_all, add_text_embeds_all, result>>

\* collate_fn lines 214-220
Return ==
    /\ pc = "return"
    /\ result' = Some([latent_batch |-> latent_batch,
                       prompt_embeds |-> prompt_embeds_all,
                       add_text_embeds |-> add_text_embeds_all,
                       batch_time_ids |-> batch_time_ids,
                       batch_luminance |-> batch_luminance])
    /\ pc' = "done"
    /\ UNCHANGED <<batch, caption_dropout_probability, dropout_probability,
                   idx, data_backend_id, batch_luminance, filepaths, task, fut,
                   latents, latent_batch, captions, model_type,
                   prompt_embeds_all, add_text_embeds_all, batch_time_ids, err>>

Next ==
    \/ Begin
    \/ DropoutStep
    \/ Luminance
    \/ Submit
    \/ \E t \in 1 .. Len(task) : FetchStart(t)
    \/ \E t \in 1 .. Len(task) : FetchFinish(t)
    \/ Join
    \/ Validate
    \/ Embed
    \/ TimeIds
    \/ Return

Spec == Init /\ [][Next]_vars

\* ------------------------------------------------------------------ claims
OneGroup == Len(batch) = 1
NumExamples == Len(examples)

\* the loop of lines 178-188 has run for every example
DropoutDone ==
    /\ OneGroup
    /\ \/ pc \notin {"start", "dropout", "error"}
       \/ pc = "error" /\ err.at \notin {"multi_batch", "dropout"}

CaptionUnchanged(i) ==
    examples[i].instance_prompt_text = InitialCaption(examples[i].image_path)

UniformShapes(lats) ==
    \A i, j \in 1 .. Len(lats) : lats[i].shape = lats[j].shape

\* C1: whatever the order in which the fetch tasks complete, once they have
\* all succeeded with one common shape compute_latents returns one latent per
\* filepath, and entry i is the latent retrieved for filepaths[i].
C1_LatentsInInputOrder ==
    /\ ( /\ Len(task) > 0
         /\ \A t \in 1 .. Len(task) : task[t] = "done"
         /\ UniformShapes([t \in 1 .. Len(fut) |-> Get(fut[t])])
         /\ pc \notin {"fetch", "validate"} )
       => latent_batch # None
    /\ latent_batch # None =>
         /\ Len(Get(latent_batch)) = Len(filepaths)
         /\ Len(Get(latent_batch)) = NumExamples
         /\ \A i \in 1 .. Len(filepaths) :
               /\ Get(latent_batch)[i].image_path = filepaths[i]
               /\ Get(latent_batch)[i].image_path = examples[i].image_path

C1_Witness ==
    /\ latent_batch # None
    /\ Len(Get(latent_batch)) = MaxExamples
    /\ MaxExamples >= 2

\* C2: a call that raised returns no record, and a returned record holds the
\* five fields, each produced by its step (the pooled embeddings and the time
\* ids being None only for the single-embedding variant).
C2_AllOrNothing ==
    /\ (pc = "error" \/ err # NoError) => (result = None /\ pc = "error" /\ err # NoError)
    /\ result # None =>
         /\ pc = "done"
         /\ DOMAIN Get(result) = {"latent_batch", "prompt_embeds", "add_text_embeds",
                                  "batch_time_ids", "batch_luminance"}
         /\ Get(result).latent_batch # None
         /\ Get(result).prompt_embeds # None
         /\ Get(result).batch_luminance # None
         /\ model_type = "sdxl" =>
               /\ Get(result).add_text_embeds # None
               /\ Get(result).batch_time_ids # None

C2_Witness ==
    /\ pc = "error"
    /\ err.at \in {"embed", "time_ids"}
    /\ latent_batch # None
    /\ result = None

\* C3: with probability 0 no caption changes and every example ends with
\* drop_conditioning false; with probability 1 every caption is cleared, every
\* example ends with drop_conditioning true and every returned time id vector
\* is the zero vector.
C3_DropoutExtremes ==
    /\ (OneGroup /\ caption_dropout_probability = Some(0)) =>
         /\ \A i \in 1 .. NumExamples :
               /\ CaptionUnchanged(i)
               /\ examples[i].drop_conditioning # Some(TRUE)
         /\ DropoutDone =>
               \A i \in 1 .. NumExamples : examples[i].drop_conditioning = Some(FALSE)
    /\ (OneGroup /\ caption_dropout_probability = Some(10)) =>
         /\ \A i \in 1 .. NumExamples :
               /\ examples[i].drop_conditioning # Some(FALSE)
               /\ examples[i].drop_conditioning = Some(TRUE)
                     <=> examples[i].instance_prompt_text = EmptyCaption
         /\ DropoutDone =>
               \A i \in 1 .. NumExamples :
                  /\ examples[i].drop_conditioning = Some(TRUE)
                  /\ examples[i].instance_prompt_text = EmptyCaption
         /\ (result # None /\ Get(result).batch_time_ids # None) =>
               /\ Len(Get(Get(result).batch_time_ids)) = NumExamples
               /\ \A i \in 1 .. NumExamples :
                     Get(Get(result).batch_time_ids)[i] = <<0, 0, 0, 0, 0, 0>>

C3_Witness ==
    /\ OneGroup
    /\ caption_dropout_probability = Some(10)
    /\ NumExamples >= 2
    /\ result # None
    /\ Get(result).batch_time_ids # None

\* C4: a null caption-dropout probability is treated as 0: the dropout step
\* raises nothing, no caption changes and every example ends with
\* drop_conditioning false.
C4_NullProbabilityIsZero ==
    (OneGroup /\ caption_dropout_probability = None) =>
       /\ ~(pc = "error" /\ err.at = "dropout")
       /\ \A i \in 1 .. NumExamples :
             /\ CaptionUnchanged(i)
             /\ examples[i].drop_conditioning # Some(TRUE)
       /\ DropoutDone =>
             \A i \in 1 .. NumExamples : examples[i].drop_conditioning = Some(FALSE)

\* latent k is the only one whose shape differs from all the others, which
\* share one shape
OnlyOutlier(lats, k) ==
    /\ \A i \in 1 .. Len(lats) : i # k => lats[i].shape # lats[k].shape
    /\ \A i, j \in 1 .. Len(lats) : (i # k /\ j # k) => lats[i].shape = lats[j].shape

\* C5: when exactly one fetched latent differs in shape from all the others,
\* at any position, compute_latents raises the shape mismatch error naming
\* the filepath of that latent; when it returns, all shapes are equal.
C5_MismatchNamesOutlier ==
    /\ \A k \in 1 .. Len(latents) :
          (Len(latents) >= 3 /\ pc # "validate" /\ OnlyOutlier(latents, k)) =>
             /\ pc = "error"
             /\ err = Error("ValueError", "shape_mismatch", Some(filepaths[k]))
    /\ latent_batch # None => UniformShapes(Get(latent_batch))

\* C6: one group of zero examples fails at the luminance step, before any
\* latent fetch task exists and before the embed cache is called, and no
\* record is returned.
C6_EmptyGroupFailsAtLuminance ==
    (OneGroup /\ NumExamples = 0) =>
       /\ pc \in {"start", "luminance", "error"}
       /\ pc = "error" => err = Error("ZeroDivisionError", "luminance", None)
       /\ task = <<>> /\ fut = <<>> /\ latents = <<>> /\ latent_batch = None
       /\ captions = None /\ model_type = Unread /\ prompt_embeds_all = None
       /\ batch_time_ids = None
       /\ result = None

C6_Witness ==
    /\ OneGroup
    /\ NumExamples = 0
    /\ pc = "error"
    /\ err.at = "luminance"

\* C7: with the single-embedding variant the pooled component is None, the
\* time ids of the record are None and the time id step is never entered; the
\* time id step runs only with a non-None pooled component.
C7_SingleVariantSkipsTimeIds ==
    /\ model_type = "legacy" =>
         /\ add_text_embeds_all = None
         /\ batch_time_ids = None
         /\ pc # "time_ids"
         /\ ~(pc = "error" /\ err.at = "time_ids")
         /\ result # None =>
               /\ Get(result).add_text_embeds = None
               /\ Get(result).batch_time_ids = None
    /\ (pc = "time_ids" \/ batch_time_ids # None \/ (pc = "error" /\ err.at = "time_ids"))
          => add_text_embeds_all # None

C7_Witness ==
    /\ model_type = "legacy"
    /\ result # None
    /\ Get(result).prompt_embeds # None

\* C8: for the dual variant the stacked time ids have one slot per example in
\* sample order; slot i is the zero 6-vector for a dropped example and
\* otherwise (original_height, original_width, crop_top, crop_left,
\* latent_height * 8, latent_width * 8).
C8_TimeIdsPerExample ==
    batch_time_ids # None =>
       /\ model_type = "sdxl"
       /\ Len(Get(batch_time_ids)) = NumExamples
       /\ \A i \in 1 .. NumExamples :
             Get(batch_time_ids)[i] =
                IF examples[i].drop_conditioning = Some(TRUE)
                THEN <<0, 0, 0, 0, 0, 0>>
                ELSE <<examples[i].original_size[2],
                       examples[i].original_size[1],
                       examples[i].crop_coordinates[1],
                       examples[i].crop_coordinates[2],
                       Get(latent_batch)[i].shape[2] * 8,
                       Get(latent_batch)[i].shape[3] * 8>>

C8_Witness ==
    /\ result # None
    /\ Get(result).batch_time_ids # None
    /\ \E i, j \in 1 .. NumExamples :
          /\ examples[i].drop_conditioning = Some(TRUE)
          /\ examples[j].drop_conditioning = Some(FALSE)

\* C9: the dropout loop has written drop_conditioning of every example before
\* any fetch task exists, before the captions are read and before the time
\* ids are computed; the captions handed to the embed cache are the
\* post-dropout ones; and no step other than the dropout loop writes to the
\* examples.
C9_StateOrder ==
    /\ pc = "dropout" => (task = <<>> /\ captions = None /\ batch_time_ids = None)
    /\ (Len(task) > 0 \/ captions # None \/ pc = "time_ids" \/ batch_time_ids # None) =>
          /\ OneGroup
          /\ \A i \in 1 .. NumExamples : examples[i].drop_conditioning # None
    /\ captions # None =>
          \A i \in 1 .. NumExamples :
             /\ Get(captions)[i] = examples[i].instance_prompt_text
             /\ Get(captions)[i] =
                   IF examples[i].drop_conditioning = Some(TRUE)
                   THEN EmptyCaption
                   ELSE InitialCaption(examples[i].image_path)

C9_StrictOrder ==
    /\ []C9_StateOrder
    /\ [][pc # "dropout" => batch' = batch]_vars

C9_Witness ==
    /\ \E t \in 1 .. Len(task) : task[t] = "running"
    /\ \E i \in 1 .. NumExamples : examples[i].drop_conditioning = Some(TRUE)

\* C10: every fetch of one call uses the data_backend_id of the last example,
\* also when the examples carry differing backend ids, which is not checked.
C10_LastBackendForAll ==
    Len(task) > 0 =>
       /\ data_backend_id = examples[NumExamples].data_backend_id
       /\ \A t \in 1 .. Len(task) :
             /\ FetchArgs(filepaths, data_backend_id, t) =
                   <<examples[t].image_path, examples[NumExamples].data_backend_id>>
             /\ fut[t] # None =>
                   /\ Get(fut[t]).image_path = examples[t].image_path
                   /\ Get(fut[t]).backend = examples[NumExamples].data_backend_id

C10_Witness ==
    /\ result # None
    /\ \E i \in 1 .. NumExamples :
          /\ examples[i].data_backend_id # examples[NumExamples].data_backend_id
          /\ Get(Get(result).latent_batch)[i].backend # examples[i].data_backend_id
====
